---- MODULE Spec2Model ----
(***************************************************************************)
(* Model of the agentic retrieval-and-answer control loop of main.py:      *)
(* run_agentic_rag (retrieval, per-chunk grading by the critic, fallback   *)
(* re-retrieval, final decision and generation), together with the global  *)
(* vector_store it reads and the upload that replaces it.                  *)
(*                                                                         *)
(* The handlers are synchronous code run by one event loop, so one request *)
(* is handled at a time; inside run_agentic_rag every call of an external  *)
(* collaborator (retriever, critic chain, generator chain) is one step.    *)
(***************************************************************************)
EXTENDS Integers, Sequences, FiniteSets, TLC

\* ---------------------------------------------------------------- bounds
\* Largest number of chunks an ingested document is split into.
MaxChunks == 8

\* Largest index of the runs that re-issue a query.
MaxDetChunks == 6

\* Largest index of the runs over indexes wider than the fallback k.
MaxWideChunks == 11

\* ------------------------------------------------------- program constants
\* retrieval_tool(question, k=5)
K_FIRST == 5
\* retrieval_tool(question, k=10)
K_FALLBACK == 10
\* docs_extended[5:]
SLICE_START == 5

\* Python's Optional: None is the empty set, a value x is {x}.
None == {}
Some(x) == {x}
Get(opt) == CHOOSE x \in opt : TRUE

NOT_READY_ANSWER == "System not ready. Please upload a PDF first."
REFUSAL_ANSWER == "I'm sorry, but the provided document does not contain information relevant to your question. Please try rephrasing your question or upload a different document."
GENERATION_ERROR_ANSWER == "An error occurred while generating the answer. Please try again."

\* response.content of a successful generator call
GeneratedTexts == {"generated answer"}

\* the separator "\n\n" of "\n\n".join(valid_context), as a token: texts are
\* sequences of tokens, a chunk's tokens are positive
SEP == 0

Min(a, b) == IF a < b THEN a ELSE b

\* ------------------------------------------------------------- the index
\* A built index, seen from one question: its chunks in best-match-first
\* order.  A chunk is named by its similarity rank.
IndexOf(n) == [r \in 1..n |-> r]

\* FAISS.from_documents builds an index over the splits of the document.
Indexes == {IndexOf(n) : n \in 1..MaxChunks}

\* load_vector_store: what the global can hold when the server starts
LoadableStores == {None} \cup {Some(ix) : ix \in Indexes}

\* doc.page_content : the text of a chunk, a sequence of tokens.
page_content(chunk) == <<chunk>>

\* Variant of Search: k is not passed on, the whole index is returned.
Search_ignoresK(store, k) == store

\* vector_store.as_retriever(search_kwargs={"k": k}).invoke(query):
\* the k best chunks, fewer when the index holds fewer.
Search(store, k) == SubSeq(store, 1, Min(k, Len(store)))

\* ------------------------------------------------------------ the critic
\* What critic_chain.invoke can produce: a parsed dict carrying a
\* binary_score (the parser does not validate its value), a parsed dict
\* without the key, or an exception (call failed, unparseable output).
RawScores == {"yes", "YES", "Yes", "no", "No", "maybe"}

CriticOutcomes ==
    [kind : {"dict"}, binary_score : RawScores]
        \cup {[kind |-> "no_key"], [kind |-> "raise"]}

\* str.lower() on the scores the grader can return
lower(s) ==
    CASE s = "YES" -> "yes"
      [] s = "Yes" -> "yes"
      [] s = "No"  -> "no"
      [] OTHER     -> s

\* grade['binary_score'].lower() succeeded
Graded(o) == o.kind = "dict"

\* The judgment of one grading call: the lowered score, or FAILED when the
\* try block raised.
FAILED == "<failed>"
Verdict(o) == IF Graded(o) THEN lower(o.binary_score) ELSE FAILED

GeneratorOutcomes == {"ok", "raise"}

\* "\n\n".join(valid_context)
RECURSIVE join(_)
join(texts) ==
    IF Len(texts) = 0 THEN << >>
    ELSE IF Len(texts) = 1 THEN texts[1]
    ELSE texts[1] \o <<SEP>> \o join(Tail(texts))

\* ------------------------------------------------------------------ state
VARIABLES
    vector_store,     \* global vector_store: None or the built index
    upload_status,    \* status of the /upload response of the last request
    pc,               \* position of the handler being run
    debug,            \* run_agentic_rag's debug argument
    docs,             \* first-pass retrieval result
    docs_extended,    \* fallback retrieval result
    i,                \* position of the grading loop in its sequence
    valid_context,    \* texts of the chunks judged relevant
    debug_info,       \* telemetry accumulator
    result,           \* returned dict, None until run_agentic_rag returns
    retrieval_calls,  \* k of each retrieval_tool call of this query
    critic_calls,     \* grading calls of this query: chunk, pass, verdict
    generator_calls,  \* formatted_context of each generator call
    generator_outcomes, \* how each generator call of this query ended
    upload_pending,   \* an /upload handler is suspended at await file.read()
    ingested,         \* what the last upload's ingest_pdf was given and how
                      \* it ended, None when the last request was no ingest
    previous          \* the outcome a caller recorded of an earlier query

vars == <<vector_store, upload_status, pc, debug, docs, docs_extended, i,
          valid_context, debug_info, result, retrieval_calls, critic_calls,
          generator_calls, generator_outcomes, upload_pending, ingested,
          previous>>

\* debug_info as run_agentic_rag creates it (the timestamp left out)
EmptyDebugInfo ==
    [total_retrieved |-> 0, relevant_chunks |-> 0, chunk_scores |-> << >>]

\* the dict every return statement of run_agentic_rag builds
Return(answer, dbg, info) ==
    Some([answer |-> answer,
          debug_info |-> IF dbg THEN Some(info) ELSE None])

\* Variant of Idle: handlers run on threads, a request is taken at any time.
Idle_threads == TRUE

\* No request is being handled: a new one can be taken.
Idle == pc \in {"idle", "done", "raised", "uploaded"}

\* load_vector_store at startup: no index, or the one persisted earlier
Init ==
    /\ vector_store \in LoadableStores
    /\ upload_status = 0
    /\ pc = "idle"
    /\ debug = FALSE
    /\ docs = << >>
    /\ docs_extended = << >>
    /\ i = 1
    /\ valid_context = << >>
    /\ debug_info = EmptyDebugInfo
    /\ result = None
    /\ retrieval_calls = << >>
    /\ critic_calls = << >>
    /\ generator_calls = << >>
    /\ generator_outcomes = << >>
    /\ upload_pending = FALSE
    /\ ingested = None
    /\ previous = None

\* ------------------------------------------------------------- retrieval
\* retrieval_tool: raises ValueError when there is no vector store;
\* otherwise the retriever answers, or the call into it raises (a
\* ValueError or any other exception).
RetrievalOutcomes(store) ==
    IF store = None THEN {"ValueError"}
    ELSE {"ok", "ValueError", "Exception"}

\* Variant of NotReadyResult: the refusal is returned in place of the
\* 'System not ready' answer.
NotReadyResult_refusal(dbg, info) == Return(REFUSAL_ANSWER, dbg, info)

\* the return statement of the except ValueError branch
NotReadyResult(dbg, info) == Return(NOT_READY_ANSWER, dbg, info)

\* Variant of RecordRetrieved: only the first retrieval is recorded.
RecordRetrieved_firstOnly(info, retrieved) ==
    IF info.total_retrieved > 0 THEN info
    ELSE [info EXCEPT !.total_retrieved = Len(retrieved)]

\* debug_info["total_retrieved"] = len(...)
RecordRetrieved(info, retrieved) ==
    [info EXCEPT !.total_retrieved = Len(retrieved)]

\* ------------------------------------------------------ grading one chunk
\* debug_info["chunk_scores"].append(tag)
ScoreAppended(info, tag) ==
    [info EXCEPT !.chunk_scores = Append(@, tag)]

\* debug_info["relevant_chunks"] += 1
RelevantCounted(info) ==
    [info EXCEPT !.relevant_chunks = @ + 1]

\* Body of the first-pass loop, effect on debug_info: the lowered score is
\* appended, the relevant count grows on 'yes'; the except branch appends
\* "error".
FirstPassTelemetry(info, o) ==
    IF Graded(o)
    THEN IF lower(o.binary_score) = "yes"
         THEN RelevantCounted(ScoreAppended(info, lower(o.binary_score)))
         ELSE ScoreAppended(info, lower(o.binary_score))
    ELSE ScoreAppended(info, "error")

\* Variant of FirstPassContext: every chunk the critic graded is kept,
\* whatever its score.
FirstPassContext_keepsAll(ctx, chunk, o) ==
    IF Graded(o) THEN Append(ctx, page_content(chunk)) ELSE ctx

\* Body of the first-pass loop, effect on valid_context
FirstPassContext(ctx, chunk, o) ==
    IF Graded(o) /\ lower(o.binary_score) = "yes"
    THEN Append(ctx, page_content(chunk))
    ELSE ctx

\* Variant of FallbackTelemetry: the fallback pass forgets to count a
\* relevant chunk.
FallbackTelemetry_uncounted(info, o) ==
    IF Graded(o) THEN ScoreAppended(info, lower(o.binary_score)) ELSE info

\* Body of the fallback loop, effect on debug_info: as the first pass,
\* but the except branch only logs.
FallbackTelemetry(info, o) ==
    IF Graded(o)
    THEN IF lower(o.binary_score) = "yes"
         THEN RelevantCounted(ScoreAppended(info, lower(o.binary_score)))
         ELSE ScoreAppended(info, lower(o.binary_score))
    ELSE info

\* Variant of FallbackContext: a chunk found relevant by the fallback pass
\* is not accumulated.
FallbackContext_drops(ctx, chunk, o) == ctx

\* Body of the fallback loop, effect on valid_context
FallbackContext(ctx, chunk, o) ==
    IF Graded(o) /\ lower(o.binary_score) = "yes"
    THEN Append(ctx, page_content(chunk))
    ELSE ctx

\* Variant of NextPosition: the loop is left at the first relevant chunk.
NextPosition_earlyExit(pos, seq, o) ==
    IF Graded(o) /\ lower(o.binary_score) = "yes"
    THEN Len(seq) + 1 ELSE pos + 1

\* Variant of NextPosition: a failed grading call leaves the loop.
NextPosition_breaks(pos, seq, o) ==
    IF Graded(o) THEN pos + 1 ELSE Len(seq) + 1

\* Where the grading loop goes after the chunk at position pos of seq:
\* every outcome, the caught exception included, moves on to the next chunk.
NextPosition(pos, seq, o) == pos + 1

\* Variant of NewlySurfaced: the slice starts one chunk early.
NewlySurfaced_early(ext) == SubSeq(ext, SLICE_START, Len(ext))

\* docs_extended[5:]
NewlySurfaced(ext) == SubSeq(ext, SLICE_START + 1, Len(ext))

\* Variant of NeedsFallback: the broader retrieval is always made.
NeedsFallback_always(ctx) == TRUE

\* if not valid_context:   (Step 3)
NeedsFallback(ctx) == ctx = << >>

\* Variant of ShouldRefuse: the final check is missing.
ShouldRefuse_never(ctx) == FALSE

\* if not valid_context:   (Step 4)
ShouldRefuse(ctx) == ctx = << >>

\* ---------------------------------------------------------------- actions
\* Variant of RunAgenticRag: valid_context is a module-level list that is
\* not emptied when a query starts.
RunAgenticRag_stale(dbg, outcome) ==
    /\ Idle
    /\ outcome \in RetrievalOutcomes(vector_store)
    /\ debug' = dbg
    /\ upload_status' = 0
    /\ retrieval_calls' = <<K_FIRST>>
    /\ critic_calls' = << >>
    /\ generator_calls' = << >>
    /\ generator_outcomes' = << >>
    /\ ingested' = None
    /\ docs_extended' = << >>
    /\ valid_context' = valid_context
    /\ i' = 1
    /\ IF outcome = "ok"
       THEN /\ docs' = Search(Get(vector_store), K_FIRST)
            /\ debug_info' = RecordRetrieved(EmptyDebugInfo, docs')
            /\ result' = None
            /\ pc' = IF Len(docs') = 0 THEN "step3" ELSE "grade1"
       ELSE IF outcome = "ValueError"
       THEN /\ docs' = << >>
            /\ debug_info' = EmptyDebugInfo
            /\ result' = NotReadyResult(dbg, EmptyDebugInfo)
            /\ pc' = "done"
       ELSE /\ docs' = << >>
            /\ debug_info' = EmptyDebugInfo
            /\ result' = None
            /\ pc' = "raised"
    /\ UNCHANGED <<vector_store, upload_pending, previous>>

\* run_agentic_rag is entered: debug_info is created and the first
\* retrieval is made (Step 1).
RunAgenticRag(dbg, outcome) ==
    /\ Idle
    /\ outcome \in RetrievalOutcomes(vector_store)
    /\ debug' = dbg
    /\ upload_status' = 0
    /\ retrieval_calls' = <<K_FIRST>>
    /\ critic_calls' = << >>
    /\ generator_calls' = << >>
    /\ generator_outcomes' = << >>
    /\ ingested' = None
    /\ docs_extended' = << >>
    /\ valid_context' = << >>
    /\ i' = 1
    /\ IF outcome = "ok"
       THEN /\ docs' = Search(Get(vector_store), K_FIRST)
            /\ debug_info' = RecordRetrieved(EmptyDebugInfo, docs')
            /\ result' = None
            /\ pc' = IF Len(docs') = 0 THEN "step3" ELSE "grade1"
       ELSE IF outcome = "ValueError"
       THEN /\ docs' = << >>
            /\ debug_info' = EmptyDebugInfo
            /\ result' = NotReadyResult(dbg, EmptyDebugInfo)
            /\ pc' = "done"
       ELSE /\ docs' = << >>
            /\ debug_info' = EmptyDebugInfo
            /\ result' = None
            /\ pc' = "raised"
    /\ UNCHANGED <<vector_store, upload_pending, previous>>

\* One iteration of the first-pass loop (Step 2): the critic grades docs[i].
GradeFirstPass(o) ==
    /\ pc = "grade1"
    /\ i <= Len(docs)
    /\ critic_calls' = Append(critic_calls,
            [chunk |-> docs[i], pass |-> 1, verdict |-> Verdict(o)])
    /\ debug_info' = FirstPassTelemetry(debug_info, o)
    /\ valid_context' = FirstPassContext(valid_context, docs[i], o)
    /\ i' = NextPosition(i, docs, o)
    /\ pc' = IF i' > Len(docs) THEN "step3" ELSE "grade1"
    /\ UNCHANGED <<vector_store, upload_status, debug, docs, docs_extended,
                   result, retrieval_calls, generator_calls,
                   generator_outcomes, upload_pending, ingested, previous>>

\* Variant of FallbackRetrieval: the broader retrieval is outside any try,
\* its exception leaves run_agentic_rag.
FallbackRetrieval_propagates(outcome) ==
    /\ pc = "step3"
    /\ NeedsFallback(valid_context)
    /\ outcome \in RetrievalOutcomes(vector_store)
    /\ retrieval_calls' = Append(retrieval_calls, K_FALLBACK)
    /\ IF outcome = "ok"
       THEN /\ docs_extended' = Search(Get(vector_store), K_FALLBACK)
            /\ debug_info' = RecordRetrieved(debug_info, docs_extended')
            /\ pc' = IF Len(NewlySurfaced(docs_extended')) = 0
                     THEN "step4" ELSE "grade2"
       ELSE /\ UNCHANGED <<docs_extended, debug_info>>
            /\ pc' = "raised"
    /\ i' = 1
    /\ UNCHANGED <<vector_store, upload_status, debug, docs, valid_context,
                   result, critic_calls, generator_calls,
                   generator_outcomes, upload_pending, ingested, previous>>

\* Step 3 with no relevant chunk: the broader retrieval.  Any exception of
\* it is caught and logged.
FallbackRetrieval(outcome) ==
    /\ pc = "step3"
    /\ NeedsFallback(valid_context)
    /\ outcome \in RetrievalOutcomes(vector_store)
    /\ retrieval_calls' = Append(retrieval_calls, K_FALLBACK)
    /\ IF outcome = "ok"
       THEN /\ docs_extended' = Search(Get(vector_store), K_FALLBACK)
            /\ debug_info' = RecordRetrieved(debug_info, docs_extended')
            /\ pc' = IF Len(NewlySurfaced(docs_extended')) = 0
                     THEN "step4" ELSE "grade2"
       ELSE /\ UNCHANGED <<docs_extended, debug_info>>
            /\ pc' = "step4"
    /\ i' = 1
    /\ UNCHANGED <<vector_store, upload_status, debug, docs, valid_context,
                   result, critic_calls, generator_calls,
                   generator_outcomes, upload_pending, ingested, previous>>

\* Step 3 with a relevant chunk: nothing to do.
SkipFallback ==
    /\ pc = "step3"
    /\ ~NeedsFallback(valid_context)
    /\ pc' = "step4"
    /\ UNCHANGED <<vector_store, upload_status, debug, docs, docs_extended,
                   i, valid_context, debug_info, result, retrieval_calls,
                   critic_calls, generator_calls, generator_outcomes,
                   upload_pending, ingested, previous>>

\* One iteration of the fallback loop over docs_extended[5:].
GradeFallback(o) ==
    /\ pc = "grade2"
    /\ i <= Len(NewlySurfaced(docs_extended))
    /\ LET chunk == NewlySurfaced(docs_extended)[i] IN
        /\ critic_calls' = Append(critic_calls,
                [chunk |-> chunk, pass |-> 2, verdict |-> Verdict(o)])
        /\ debug_info' = FallbackTelemetry(debug_info, o)
        /\ valid_context' = FallbackContext(valid_context, chunk, o)
    /\ i' = NextPosition(i, NewlySurfaced(docs_extended), o)
    /\ pc' = IF i' > Len(NewlySurfaced(docs_extended))
             THEN "step4" ELSE "grade2"
    /\ UNCHANGED <<vector_store, upload_status, debug, docs, docs_extended,
                   result, retrieval_calls, generator_calls,
                   generator_outcomes, upload_pending, ingested, previous>>

\* Step 4 with nothing relevant: the fixed refusal.
Refuse ==
    /\ pc = "step4"
    /\ ShouldRefuse(valid_context)
    /\ result' = Return(REFUSAL_ANSWER, debug, debug_info)
    /\ pc' = "done"
    /\ UNCHANGED <<vector_store, upload_status, debug, docs, docs_extended,
                   i, valid_context, debug_info, retrieval_calls,
                   critic_calls, generator_calls, generator_outcomes,
                   upload_pending, ingested, previous>>

\* Variant of Generate: the generator call is outside any try, its
\* exception leaves run_agentic_rag.
Generate_propagates(outcome, text) ==
    /\ pc = "step4"
    /\ ~ShouldRefuse(valid_context)
    /\ generator_calls' = Append(generator_calls, join(valid_context))
    /\ generator_outcomes' = Append(generator_outcomes, outcome)
    /\ result' = IF outcome = "ok"
                 THEN Return(text, debug, debug_info)
                 ELSE None
    /\ pc' = IF outcome = "ok" THEN "done" ELSE "raised"
    /\ UNCHANGED <<vector_store, upload_status, debug, docs, docs_extended,
                   i, valid_context, debug_info, retrieval_calls,
                   critic_calls, upload_pending, ingested, previous>>

\* Step 4 with relevant chunks: the generator is called on the joined
\* context; its exception is turned into the fixed error answer.
Generate(outcome, text) ==
    /\ pc = "step4"
    /\ ~ShouldRefuse(valid_context)
    /\ generator_calls' = Append(generator_calls, join(valid_context))
    /\ generator_outcomes' = Append(generator_outcomes, outcome)
    /\ result' = IF outcome = "ok"
                 THEN Return(text, debug, debug_info)
                 ELSE Return(GENERATION_ERROR_ANSWER, debug, debug_info)
    /\ pc' = "done"
    /\ UNCHANGED <<vector_store, upload_status, debug, docs, docs_extended,
                   i, valid_context, debug_info, retrieval_calls,
                   critic_calls, upload_pending, ingested, previous>>

\* ------------------------------------------------------------------ upload
\* Where ingest_pdf can raise, or "ok"
IngestOutcomes == {"ok", "load", "split", "build", "persist"}

\* Variant of StoreAfterIngest: the global index is filled in place, a
\* failing build leaves it with the splits embedded so far.
StoreAfterIngest_inPlace(store, n, outcome) ==
    IF outcome \in {"ok", "persist"} THEN Some(IndexOf(n))
    ELSE IF outcome = "build" THEN Some(IndexOf(n - 1))
    ELSE store

\* vector_store after ingest_pdf: assigned once FAISS.from_documents has
\* returned, before save_local.
StoreAfterIngest(store, n, outcome) ==
    IF outcome \in {"ok", "persist"} THEN Some(IndexOf(n)) ELSE store

\* upload_document up to its await: the handler of a .pdf upload saves the
\* temporary file and is suspended at await file.read(); the event loop
\* can serve other requests until it resumes.
UploadAwaitRead ==
    /\ Idle
    /\ ~upload_pending
    /\ upload_pending' = TRUE
    /\ UNCHANGED <<vector_store, upload_status, pc, debug, docs,
                   docs_extended, i, valid_context, debug_info, result,
                   retrieval_calls, critic_calls, generator_calls,
                   generator_outcomes, ingested, previous>>

\* upload_document: a file that is not a .pdf is rejected at once; the
\* handler of a .pdf resumes after its await, the document is ingested
\* without suspension and an exception of ingest_pdf becomes a 500.
UploadDocument(is_pdf, n, outcome) ==
    /\ Idle
    /\ is_pdf => upload_pending
    /\ upload_pending' = IF is_pdf THEN FALSE ELSE upload_pending
    /\ ingested' = IF is_pdf
                   THEN Some([chunks |-> n, outcome |-> outcome])
                   ELSE None
    /\ generator_outcomes' = << >>
    /\ UNCHANGED previous
    /\ vector_store' = IF is_pdf
                       THEN StoreAfterIngest(vector_store, n, outcome)
                       ELSE vector_store
    /\ upload_status' = IF ~is_pdf THEN 400
                        ELSE IF outcome = "ok" THEN 200 ELSE 500
    /\ pc' = "uploaded"
    /\ debug' = FALSE
    /\ docs' = << >>
    /\ docs_extended' = << >>
    /\ i' = 1
    /\ valid_context' = << >>
    /\ debug_info' = EmptyDebugInfo
    /\ result' = None
    /\ retrieval_calls' = << >>
    /\ critic_calls' = << >>
    /\ generator_calls' = << >>

Next ==
    \/ \E dbg \in BOOLEAN, outcome \in {"ok", "ValueError", "Exception"} :
            RunAgenticRag(dbg, outcome)
    \/ \E o \in CriticOutcomes : GradeFirstPass(o)
    \/ \E outcome \in {"ok", "ValueError", "Exception"} :
            FallbackRetrieval(outcome)
    \/ SkipFallback
    \/ \E o \in CriticOutcomes : GradeFallback(o)
    \/ Refuse
    \/ \E outcome \in GeneratorOutcomes, text \in GeneratedTexts :
            Generate(outcome, text)
    \/ UploadAwaitRead
    \/ \E n \in 1..MaxChunks, outcome \in IngestOutcomes :
            UploadDocument(TRUE, n, outcome)
    \/ UploadDocument(FALSE, 1, "ok")

Spec == Init /\ [][Next]_vars

\* ------------------------------------------- indexes wider than k_fallback
\* Queries against indexes of about and above K_FALLBACK chunks, with the
\* critic's outcomes reduced to relevant, not relevant and failed.
WideStores ==
    {Some(IndexOf(n)) : n \in (K_FALLBACK - 1)..MaxWideChunks}

WideCriticOutcomes ==
    {[kind |-> "dict", binary_score |-> "yes"],
     [kind |-> "dict", binary_score |-> "no"],
     [kind |-> "raise"]}

InitWide ==
    /\ vector_store \in WideStores
    /\ upload_status = 0
    /\ pc = "idle"
    /\ debug = FALSE
    /\ docs = << >>
    /\ docs_extended = << >>
    /\ i = 1
    /\ valid_context = << >>
    /\ debug_info = EmptyDebugInfo
    /\ result = None
    /\ retrieval_calls = << >>
    /\ critic_calls = << >>
    /\ generator_calls = << >>
    /\ generator_outcomes = << >>
    /\ upload_pending = FALSE
    /\ ingested = None
    /\ previous = None

NextWide ==
    \/ \E dbg \in BOOLEAN, outcome \in {"ok", "ValueError", "Exception"} :
            RunAgenticRag(dbg, outcome)
    \/ \E o \in WideCriticOutcomes : GradeFirstPass(o)
    \/ \E outcome \in {"ok", "ValueError", "Exception"} :
            FallbackRetrieval(outcome)
    \/ SkipFallback
    \/ \E o \in WideCriticOutcomes : GradeFallback(o)
    \/ Refuse
    \/ \E outcome \in GeneratorOutcomes, text \in GeneratedTexts :
            Generate(outcome, text)

SpecWide == InitWide /\ [][NextWide]_vars

\* ------------------------------------------------------ a query re-issued
\* A caller issues a query, records what came back, and issues the same
\* query again: the index is not replaced, and the retriever, the critic
\* and the generator (temperature 0) answer the second time as they did the
\* first time.
DetStores == {None} \cup {Some(IndexOf(n)) : n \in 1..MaxDetChunks}

InitDet ==
    /\ vector_store \in DetStores
    /\ upload_status = 0
    /\ pc = "idle"
    /\ debug = FALSE
    /\ docs = << >>
    /\ docs_extended = << >>
    /\ i = 1
    /\ valid_context = << >>
    /\ debug_info = EmptyDebugInfo
    /\ result = None
    /\ retrieval_calls = << >>
    /\ critic_calls = << >>
    /\ generator_calls = << >>
    /\ generator_outcomes = << >>
    /\ upload_pending = FALSE
    /\ ingested = None
    /\ previous = None

\* what the caller keeps of the query that ended, and how the collaborators
\* answered in it
Recorded ==
    [ended       |-> pc,
     answer      |-> IF result = None THEN "" ELSE Get(result).answer,
     info        |-> debug_info,
     store       |-> vector_store,
     first       |-> IF pc = "raised" THEN "Exception"
                     ELSE IF docs # << >> THEN "ok" ELSE "ValueError",
     retrievals  |-> Len(retrieval_calls),
     fallback_ok |-> docs_extended # << >>,
     graded      |-> {[chunk |-> critic_calls[j].chunk,
                       verdict |-> critic_calls[j].verdict] :
                          j \in DOMAIN critic_calls},
     generator   |-> generator_outcomes]

\* the retriever fails or answers as it did in the recorded query
SameFirstRetrieval(outcome) ==
    \A p \in previous : outcome = p.first

SameFallbackRetrieval(outcome) ==
    \A p \in previous :
        p.retrievals = 2 => ((outcome = "ok") <=> p.fallback_ok)

\* the critic judges a chunk as it did in the recorded query
SameGrade(chunk, o) ==
    \A p \in previous : \A g \in p.graded :
        g.chunk = chunk => Verdict(o) = g.verdict

\* the generator ends as it did in the recorded query
SameGeneration(outcome) ==
    \A p \in previous : p.generator # << >> => outcome = p.generator[1]

\* the caller receives the response and keeps it; the server is idle again
Remember ==
    /\ previous = None
    /\ pc \in {"done", "raised"}
    /\ previous' = Some(Recorded)
    /\ pc' = "idle"
    /\ UNCHANGED <<vector_store, upload_status, debug, docs, docs_extended,
                   i, valid_context, debug_info, result, retrieval_calls,
                   critic_calls, generator_calls, generator_outcomes,
                   upload_pending, ingested>>

DetRunAgenticRag(dbg, outcome) ==
    /\ pc = "idle"
    /\ SameFirstRetrieval(outcome)
    /\ RunAgenticRag(dbg, outcome)

DetGradeFirstPass(o) ==
    /\ pc = "grade1"
    /\ i <= Len(docs)
    /\ SameGrade(docs[i], o)
    /\ GradeFirstPass(o)

DetFallbackRetrieval(outcome) ==
    /\ SameFallbackRetrieval(outcome)
    /\ FallbackRetrieval(outcome)

DetGradeFallback(o) ==
    /\ pc = "grade2"
    /\ i <= Len(NewlySurfaced(docs_extended))
    /\ SameGrade(NewlySurfaced(docs_extended)[i], o)
    /\ GradeFallback(o)

DetGenerate(outcome, text) ==
    /\ SameGeneration(outcome)
    /\ Generate(outcome, text)

NextDet ==
    \/ \E dbg \in BOOLEAN, outcome \in {"ok", "ValueError", "Exception"} :
            DetRunAgenticRag(dbg, outcome)
    \/ \E o \in CriticOutcomes : DetGradeFirstPass(o)
    \/ \E outcome \in {"ok", "ValueError", "Exception"} :
            DetFallbackRetrieval(outcome)
    \/ SkipFallback
    \/ \E o \in CriticOutcomes : DetGradeFallback(o)
    \/ Refuse
    \/ \E outcome \in GeneratorOutcomes, text \in GeneratedTexts :
            DetGenerate(outcome, text)
    \/ Remember

SpecDet == InitDet /\ [][NextDet]_vars

\* ============================================================ properties
\* Helpers of the properties.
Range(seq) == {seq[j] : j \in DOMAIN seq}

Count(seq, v) == Cardinality({j \in DOMAIN seq : seq[j] = v})

\* the grading calls made in pass p, in call order
PassCalls(p) == SelectSeq(critic_calls, LAMBDA c : c.pass = p)

\* the grading calls whose verdict was 'yes', in call order
RelevantCalls == SelectSeq(critic_calls, LAMBDA c : c.verdict = "yes")

ChunksOf(calls) == [j \in DOMAIN calls |-> calls[j].chunk]

TextsOf(calls) == [j \in DOMAIN calls |-> page_content(calls[j].chunk)]

\* the first retrieval returned chunks (it did not raise)
FirstRetrieved == docs # << >>

\* the fallback retrieval returned chunks (it did not raise)
FallbackRetrieved == docs_extended # << >>

\* the first-pass loop and the decision of Step 3 are behind
FirstPassGraded == FirstRetrieved /\ pc \in {"grade2", "step4", "done"}

\* the query is past both passes
PassesOver == FirstRetrieved /\ pc \in {"step4", "done"}

\* C1: a query issued while no index is built returns the 'System not
\* ready' answer at once: no grading call, no generator call, telemetry at
\* its empty defaults.
NotReadyShortCircuits ==
    vector_store = None =>
        /\ critic_calls = << >>
        /\ generator_calls = << >>
        /\ debug_info = EmptyDebugInfo
        /\ pc \in {"idle", "done", "uploaded"}
        /\ pc = "done" =>
             result = Some([answer |-> NOT_READY_ANSWER,
                            debug_info |-> IF debug THEN Some(EmptyDebugInfo)
                                           ELSE None])

\* a query with debug output returned while there was no index
NotReadyWitness ==
    /\ pc = "done"
    /\ vector_store = None
    /\ debug
    /\ retrieval_calls = <<K_FIRST>>

\* C2: the fallback retrieval (k=10) is made if and only if the first pass
\* found no relevant chunk, and then once: never a third retrieval.
FallbackIffNothingRelevant ==
    /\ Len(retrieval_calls) <= 2
    /\ Len(retrieval_calls) = 2 =>
         /\ retrieval_calls = <<K_FIRST, K_FALLBACK>>
         /\ ChunksOf(PassCalls(1)) = docs
         /\ \A j \in DOMAIN PassCalls(1) : PassCalls(1)[j].verdict # "yes"
    /\ FirstPassGraded =>
         ((\A j \in DOMAIN PassCalls(1) : PassCalls(1)[j].verdict # "yes")
            <=> Len(retrieval_calls) = 2)

\* a query that needed the fallback retrieval and found something there
FallbackWitness ==
    /\ pc = "done"
    /\ retrieval_calls = <<K_FIRST, K_FALLBACK>>
    /\ Len(PassCalls(2)) >= 2
    /\ RelevantCalls # << >>

\* C3: the fallback pass grades exactly the chunks of the fallback result
\* beyond the number of chunks the first pass returned, each once, and no
\* chunk the first pass graded.
FallbackGradesOnlyNewChunks ==
    (PassesOver /\ FallbackRetrieved) =>
        /\ ChunksOf(PassCalls(2)) =
              SubSeq(docs_extended, Len(docs) + 1, Len(docs_extended))
        /\ Range(ChunksOf(PassCalls(2))) \cap Range(ChunksOf(PassCalls(1)))
              = {}

\* a fallback pass that surfaced three new chunks
NewChunksWitness ==
    /\ pc = "done"
    /\ FallbackRetrieved
    /\ Len(docs) = K_FIRST
    /\ Len(docs_extended) = K_FIRST + 3
    /\ Len(PassCalls(2)) = 3

\* C4: the generator is invoked at most once per query, and only with a
\* non-empty accumulated relevant set.
GeneratorOnceAndNonEmpty ==
    /\ Len(generator_calls) <= 1
    /\ generator_calls # << >> =>
         /\ valid_context # << >>
         /\ RelevantCalls # << >>
         /\ generator_calls[1] # << >>

\* the generator ran after a fallback pass that mixed relevant, not
\* relevant and failed gradings
GeneratorWitness ==
    /\ Len(generator_calls) = 1
    /\ Len(retrieval_calls) = 2
    /\ \E j \in DOMAIN critic_calls : critic_calls[j].verdict = FAILED
    /\ \E j \in DOMAIN critic_calls : critic_calls[j].verdict = "no"

\* C5: the generator's context is the texts of the chunks judged relevant,
\* joined in order of accumulation (rank order within a pass, first pass
\* before fallback pass), with no other chunk; a fallback chunk is in it
\* only when the first pass found nothing relevant.
GeneratorContextIsRelevantTexts ==
    generator_calls # << >> =>
        /\ generator_calls[1] = join(TextsOf(RelevantCalls))
        /\ \A j, k \in DOMAIN RelevantCalls :
              j < k => /\ RelevantCalls[j].pass <= RelevantCalls[k].pass
                       /\ RelevantCalls[j].chunk < RelevantCalls[k].chunk
        /\ \A j \in DOMAIN critic_calls :
              critic_calls[j].verdict # "yes" =>
                  critic_calls[j].chunk \notin Range(generator_calls[1])
        /\ (\E j \in DOMAIN RelevantCalls : RelevantCalls[j].pass = 1) =>
              (\A j \in DOMAIN RelevantCalls : RelevantCalls[j].pass = 1)

\* Scenario A: chunks 1..5 not relevant, of the fallback chunks only chunk 8
\* relevant: the context is chunk 8's text
ScenarioAWitness ==
    /\ pc = "done"
    /\ Len(PassCalls(1)) = 5
    /\ \A j \in DOMAIN PassCalls(1) : PassCalls(1)[j].verdict = "no"
    /\ ChunksOf(RelevantCalls) = <<8>>
    /\ generator_calls = <<page_content(8)>>

\* C6: with the passes run, the refusal is returned exactly when no chunk
\* of either pass was judged relevant, and then the generator is not
\* invoked.
RefusalIffNothingRelevant ==
    (pc = "done" /\ FirstRetrieved) =>
        /\ (Get(result).answer = REFUSAL_ANSWER) <=> (RelevantCalls = << >>)
        /\ RelevantCalls = << >> => generator_calls = << >>

\* Scenario C: eight chunks graded over both passes, none relevant
ScenarioCWitness ==
    /\ pc = "done"
    /\ Len(PassCalls(1)) = 5
    /\ Len(PassCalls(2)) = 3
    /\ RelevantCalls = << >>
    /\ Get(result).answer = REFUSAL_ANSWER

\* C7: in every returned telemetry record, relevant_chunks is the number
\* of chunk_scores entries carrying the relevant judgment.
RelevantCountMatchesScores ==
    \A r \in result : \A info \in r.debug_info :
        info.relevant_chunks = Count(info.chunk_scores, "yes")

\* a returned record of a query whose two passes mixed relevant, not
\* relevant and failed gradings
RelevantCountWitness ==
    /\ pc = "done"
    /\ \E r \in result : \E info \in r.debug_info :
          /\ info.relevant_chunks = 2
          /\ "error" \in Range(info.chunk_scores)
          /\ "no" \in Range(info.chunk_scores)
    /\ Len(PassCalls(2)) >= 2

\* C8 (as claimed): at return, chunk_scores has one entry per grading call
\* of both passes, the failed ones included.
OneScorePerGradingCall ==
    \A r \in result : \A info \in r.debug_info :
        Len(info.chunk_scores) = Len(critic_calls)

\* C9 (as claimed): every entry of the returned chunk_scores is one of the
\* three judgment tags.
JudgmentTags == {"yes", "no", "error"}

ScoresAreJudgmentTags ==
    \A r \in result : \A info \in r.debug_info :
        Range(info.chunk_scores) \subseteq JudgmentTags

\* C10: a failed grading call does not abort the query nor disturb other
\* chunks: the chunk is not accumulated nor counted, the rest of its pass
\* is graded, and no exception leaves the query once grading has begun.
GradingFailureIsLocal ==
    /\ \A j \in DOMAIN critic_calls :
          critic_calls[j].verdict = FAILED =>
              page_content(critic_calls[j].chunk) \notin Range(valid_context)
    /\ debug_info.relevant_chunks = Len(RelevantCalls)
    /\ Len(valid_context) = Len(RelevantCalls)
    /\ pc = "grade1" => ChunksOf(PassCalls(1)) = SubSeq(docs, 1, i - 1)
    /\ (FirstRetrieved /\ pc \in {"step3", "grade2", "step4", "done"}) =>
          ChunksOf(PassCalls(1)) = docs
    /\ (FallbackRetrieved /\ pc = "grade2") =>
          Len(PassCalls(2)) = i - 1
    /\ (FallbackRetrieved /\ pc \in {"step4", "done"}) =>
          Len(PassCalls(2)) = Len(docs_extended) - Len(docs)
    /\ critic_calls # << >> => pc # "raised"
    /\ (pc = "done") => result # None

\* a query that returned an answer although a grading call failed in each
\* pass, with chunks graded after each failure
GradingFailureWitness ==
    /\ pc = "done"
    /\ result # None
    /\ \E j, k \in DOMAIN critic_calls :
          /\ j < k
          /\ critic_calls[j].pass = 1 /\ critic_calls[k].pass = 1
          /\ critic_calls[j].verdict = FAILED
    /\ \E j, k \in DOMAIN critic_calls :
          /\ j < k
          /\ critic_calls[j].pass = 2 /\ critic_calls[k].pass = 2
          /\ critic_calls[j].verdict = FAILED
          /\ critic_calls[k].verdict = "yes"

\* --------------------------------------------------------------- C11-C20
\* the handler is inside run_agentic_rag
InQuery == pc \in {"grade1", "step3", "grade2", "step4"}

\* the broader retrieval was called and raised
FallbackFailed == Len(retrieval_calls) = 2 /\ docs_extended = << >>

\* the telemetry the first pass leaves: one score per graded chunk, "error"
\* for a failed call
FirstPassScores ==
    [j \in DOMAIN PassCalls(1) |->
        IF PassCalls(1)[j].verdict = FAILED THEN "error"
        ELSE PassCalls(1)[j].verdict]

\* chat_endpoint's response status for the query that ended: 400 without
\* an index, 500 when run_agentic_rag raised, 200 with its result otherwise
ChatStatus ==
    IF vector_store = None THEN 400
    ELSE IF pc = "raised" THEN 500
    ELSE 200

\* C11: a failed fallback retrieval does not abort the query: no fallback
\* grading call is made, nothing is added to the relevant set, the first
\* pass's telemetry stays as it was, and the query returns the refusal.
FallbackFailureIsAbsorbed ==
    FallbackFailed =>
        /\ pc \in {"step4", "done"}
        /\ PassCalls(2) = << >>
        /\ valid_context = << >>
        /\ debug_info = [total_retrieved |-> Len(docs),
                         relevant_chunks |-> 0,
                         chunk_scores    |-> FirstPassScores]
        /\ pc = "done" =>
              result = Return(REFUSAL_ANSWER, debug, debug_info)

\* a query returned after its fallback retrieval had raised, the first
\* pass having recorded a failed and a not-relevant grading
FallbackFailureWitness ==
    /\ pc = "done"
    /\ FallbackFailed
    /\ debug
    /\ Len(docs) = K_FIRST
    /\ "error" \in Range(debug_info.chunk_scores)
    /\ "no" \in Range(debug_info.chunk_scores)

\* C12: a failed generator call gives the fixed generation-error answer as
\* a normal result: run_agentic_rag returns, chat_endpoint answers 200.
GenerationFailureIsAnAnswer ==
    "raise" \in Range(generator_outcomes) =>
        /\ pc = "done"
        /\ result = Return(GENERATION_ERROR_ANSWER, debug, debug_info)
        /\ ChatStatus = 200

\* the generator raised on a context found by the fallback pass
GenerationFailureWitness ==
    /\ pc = "done"
    /\ generator_outcomes = <<"raise">>
    /\ Len(retrieval_calls) = 2
    /\ Get(result).answer = GENERATION_ERROR_ANSWER

\* C13 (as claimed): whatever the outcomes of the first retrieval, the
\* gradings, the fallback retrieval and the generation, a query that has
\* ended has ended in one result carrying an answer.
AnswerStrings ==
    {NOT_READY_ANSWER, REFUSAL_ANSWER, GENERATION_ERROR_ANSWER}
        \cup GeneratedTexts

EveryPathEndsInOneAnswer ==
    /\ pc # "raised"
    /\ pc = "done" =>
          /\ Cardinality(result) = 1
          /\ \A r \in result : r.answer \in AnswerStrings

\* C15: the global index is replaced in one step, by the index built over
\* all splits of the uploaded document, and never while a query runs; every
\* retrieval of a query reads a complete index.
AtomicIndexSwap ==
    [][ /\ vector_store' \in LoadableStores
        /\ vector_store' # vector_store =>
              /\ ~InQuery
              /\ pc' = "uploaded"
              /\ \E g \in ingested' :
                    /\ g.outcome \in {"ok", "persist"}
                    /\ vector_store' = Some(IndexOf(g.chunks))
        /\ (docs' # docs /\ docs' # << >>) =>
              /\ vector_store \in LoadableStores
              /\ docs' = Search(Get(vector_store), K_FIRST)
        /\ (docs_extended' # docs_extended /\ docs_extended' # << >>) =>
              /\ vector_store \in LoadableStores
              /\ docs_extended' = Search(Get(vector_store), K_FALLBACK)
      ]_vars

\* a query ran both retrievals while an upload was suspended at its await
AtomicSwapWitness ==
    /\ pc = "done"
    /\ upload_pending
    /\ FallbackRetrieved
    /\ Len(docs_extended) > Len(docs)

\* C16: total_retrieved is the number of chunks retrieved over the passes
\* of the query, the fallback result included when that pass ran, and is
\* never smaller than the number of chunks graded.
TotalRetrievedCoversPasses ==
    /\ debug_info.total_retrieved =
          Cardinality(Range(docs) \cup Range(docs_extended))
    /\ debug_info.total_retrieved >= Len(critic_calls)
    /\ \A r \in result : \A info \in r.debug_info :
          /\ info.total_retrieved = Len(docs) \/ FallbackRetrieved
          /\ FallbackRetrieved => info.total_retrieved = Len(docs_extended)
          /\ info.total_retrieved >= Len(critic_calls)

\* a returned record after a fallback pass over eight chunks, all graded
TotalRetrievedWitness ==
    /\ pc = "done"
    /\ \E r \in result : \E info \in r.debug_info :
          info.total_retrieved = 8
    /\ Len(docs) = K_FIRST
    /\ Len(critic_calls) = 8

\* C17: each pass makes one grading call per chunk, in retrieval-rank
\* order; the first pass grades every retrieved chunk, relevant chunks
\* found or not, and is over before the fallback retrieval is made.
GradingIsSequentialInRankOrder ==
    /\ ChunksOf(PassCalls(1)) = SubSeq(docs, 1, Len(PassCalls(1)))
    /\ ChunksOf(PassCalls(2)) =
          SubSeq(docs_extended, K_FIRST + 1, K_FIRST + Len(PassCalls(2)))
    /\ \A j, k \in DOMAIN critic_calls :
          j < k => \/ critic_calls[j].pass < critic_calls[k].pass
                   \/ /\ critic_calls[j].pass = critic_calls[k].pass
                      /\ critic_calls[j].chunk < critic_calls[k].chunk
    /\ (FirstRetrieved /\ pc \in {"step3", "grade2", "step4", "done"}) =>
          Len(PassCalls(1)) = Len(docs)
    /\ Len(retrieval_calls) = 2 => Len(PassCalls(1)) = Len(docs)
    /\ pc = "grade1" => /\ Len(retrieval_calls) = 1
                        /\ i = Len(PassCalls(1)) + 1

\* the first pass went on to rank 5 after rank 1 was found relevant
NoEarlyExitWitness ==
    /\ pc = "done"
    /\ Len(PassCalls(1)) = K_FIRST
    /\ PassCalls(1)[1].verdict = "yes"
    /\ PassCalls(1)[K_FIRST].verdict = "no"

\* C19: the index is not replaced while a query runs, so the fallback
\* retrieval reads the index the first retrieval read and its first ranks
\* are the first-pass chunks.
BothPassesReadSameIndex ==
    [][ /\ InQuery => vector_store' = vector_store
        /\ docs_extended' # << >> =>
              /\ SubSeq(docs_extended', 1, Len(docs')) = docs'
              /\ docs' = Search(Get(vector_store'), K_FIRST)
              /\ docs_extended' = Search(Get(vector_store'), K_FALLBACK)
      ]_vars

\* a fallback pass is being graded while an upload is suspended
SameIndexWitness ==
    /\ pc = "grade2"
    /\ upload_pending
    /\ i = 2
    /\ SubSeq(docs_extended, 1, K_FIRST) = docs

\* C20 (as claimed): an upload answered with an error status leaves the
\* index read by queries as it was.
FailedUploadKeepsIndex ==
    [][ (pc' = "uploaded" /\ upload_status' \in {400, 500}) =>
            vector_store' = vector_store ]_vars

\* C14: the same query issued again against the unchanged index, with
\* the collaborators answering as before, ends the same way with the same
\* answer and the same telemetry; the index is as the first query found it.
ReissueGivesSameResult ==
    \A p \in previous :
        /\ vector_store = p.store
        /\ pc \in {"done", "raised"} =>
              /\ pc = p.ended
              /\ (IF result = None THEN "" ELSE Get(result).answer) = p.answer
              /\ debug_info.total_retrieved = p.info.total_retrieved
              /\ debug_info.relevant_chunks = p.info.relevant_chunks
              /\ debug_info.chunk_scores = p.info.chunk_scores

\* the re-issued query ended, having found its relevant chunk in the
\* fallback pass as the recorded one did
ReissueWitness ==
    /\ pc = "done"
    /\ \E p \in previous : p.retrievals = 2 /\ p.info.relevant_chunks = 1
    /\ Len(retrieval_calls) = 2
    /\ debug_info.relevant_chunks = 1
    /\ generator_calls # << >>

\* C18: a query makes at most two retrieval calls and at most K_FALLBACK
\* grading calls over both passes, each retrieval returning at most its k
\* chunks, whatever the grading outcomes.
AtMostTwoRetrievalsTenGradings ==
    /\ Len(docs) <= K_FIRST
    /\ Len(docs_extended) <= K_FALLBACK
    /\ Len(retrieval_calls) <= 2
    /\ Len(PassCalls(1)) <= K_FIRST
    /\ Len(critic_calls) <= K_FALLBACK

\* ten grading calls were made against an index of eleven chunks
TenGradingsWitness ==
    /\ pc = "done"
    /\ Len(Get(vector_store)) = 11
    /\ Len(retrieval_calls) = 2
    /\ Len(critic_calls) = K_FALLBACK

====
